---------------------------- MODULE Spec2Model ----------------------------
(***************************************************************************)
(* Model of the skill tooling of scripts/init_skill.py (the initializer)   *)
(* and scripts/package_skill.py (SkillValidator, SkillPackager and the     *)
(* `package` command).                                                     *)
(*                                                                         *)
(* Text is a sequence of atoms.  An atom is a one-character string, or a   *)
(* named chunk that stands for a run of literal text of the source whose   *)
(* only relevant features are its length and whether it holds "TODO".      *)
(***************************************************************************)
EXTENDS Integers, Sequences, FiniteSets, TLC

(***************************************************************************)
(* Bounds of the model.                                                    *)
(***************************************************************************)
\* longest skill name handed to the init command
MaxNameLen == 4
\* longest directory name of a skill handed to the validator
MaxDirNameLen == 2
\* validate() calls made on one SkillValidator object
MaxRuns == 2
\* package commands and package() calls made on one skill directory
MaxPackages == 2

(***************************************************************************)
(* Characters and text.                                                    *)
(***************************************************************************)
NL == "\n"
\* "eacute" / "Eacute": a non-ASCII letter (U+00E9) and its uppercase (U+00C9)
LowerChars == {"a", "eacute"}
UpperChars == {"A", "Eacute"}
DigitChars == {"1"}
Whitespace == {" ", NL}

\* characters a chunk atom stands for
AtomLen(a) ==
  CASE a = "TODO"      -> 4
    [] a = "DESC_TAIL" -> 142
    [] a = "BODY_TAIL" -> 719
    [] a = "EXAMPLE_SCRIPT"    -> 199
    [] a = "EXAMPLE_REFERENCE" -> 181
    [] a = "EXAMPLE_ASSET"     -> 143
    [] a = "name"        -> 4
    [] a = "description" -> 11
    [] a = "extra"       -> 5
    [] a = "TEXT_100"  -> 100
    [] a = "TEXT_LONG" -> 25001
    [] OTHER           -> 1

\* atoms whose text holds the substring TODO
TodoAtoms == {"TODO", "BODY_TAIL"}

RECURSIVE StrLen(_)
StrLen(s) == IF s = <<>> THEN 0 ELSE AtomLen(Head(s)) + StrLen(Tail(s))

RECURSIVE LStrip(_)
LStrip(s) == IF s # <<>> /\ Head(s) \in Whitespace THEN LStrip(Tail(s)) ELSE s

RECURSIVE RStrip(_)
RStrip(s) ==
  IF s # <<>> /\ s[Len(s)] \in Whitespace
  THEN RStrip(SubSeq(s, 1, Len(s) - 1))
  ELSE s

\* str.strip()
Strip(s) == RStrip(LStrip(s))

\* str.find(sep) as a 1-based index, 0 when sep does not occur
Find(s, sep) ==
  LET idx == {i \in 1..(Len(s) - Len(sep) + 1) : SubSeq(s, i, i + Len(sep) - 1) = sep}
  IN IF idx = {} THEN 0 ELSE CHOOSE i \in idx : \A j \in idx : i <= j

\* str.split(sep, maxsplit); maxsplit = -1 splits at every occurrence
RECURSIVE Split(_, _, _)
Split(s, sep, maxsplit) ==
  LET i == Find(s, sep)
  IN IF maxsplit = 0 \/ i = 0
     THEN <<s>>
     ELSE <<SubSeq(s, 1, i - 1)>>
            \o Split(SubSeq(s, i + Len(sep), Len(s)), sep, maxsplit - 1)

\* str.startswith(prefix)
StartsWith(s, prefix) ==
  Len(s) >= Len(prefix) /\ SubSeq(s, 1, Len(prefix)) = prefix

\* 'TODO' in s
ContainsTodo(s) == \E i \in 1..Len(s) : s[i] \in TodoAtoms

\* c in s, for a single character c
ContainsChar(s, c) == \E i \in 1..Len(s) : s[i] = c

\* str.replace(c, r) for a single character c and a replacement text r
RECURSIVE Replace(_, _, _)
Replace(s, c, r) ==
  IF s = <<>> THEN <<>>
  ELSE (IF Head(s) = c THEN r ELSE <<Head(s)>>) \o Replace(Tail(s), c, r)

\* str.isalnum(): non-empty and every character a letter or a digit
IsAlnum(s) ==
  /\ s # <<>>
  /\ \A i \in 1..Len(s) : s[i] \in LowerChars \cup UpperChars \cup DigitChars

\* str.islower(): at least one cased character and no uppercase one
IsLower(s) ==
  /\ \E i \in 1..Len(s) : s[i] \in LowerChars
  /\ \A i \in 1..Len(s) : s[i] \notin UpperChars

ToUpper(c) == CASE c = "a" -> "A" [] c = "eacute" -> "Eacute" [] OTHER -> c
ToLower(c) == CASE c = "A" -> "a" [] c = "Eacute" -> "eacute" [] OTHER -> c

\* str.title(): a cased character is uppercased after an uncased one (or at
\* the start) and lowercased after a cased one
Title(s) ==
  [i \in 1..Len(s) |->
     IF i > 1 /\ s[i - 1] \in LowerChars \cup UpperChars
     THEN ToLower(s[i])
     ELSE ToUpper(s[i])]

(***************************************************************************)
(* yaml.safe_load, for the documents the model builds: a block mapping of  *)
(* `key: value` lines whose values are plain or double-quoted scalars, a   *)
(* bare scalar, or nothing.  Lines are never indented.                     *)
(***************************************************************************)
Quote == "\""

\* the resolver's implicit integer: [-+]?[1-9][0-9_]* over the model's characters
IsYamlInt(t) ==
  LET w == IF t # <<>> /\ Head(t) = "-" THEN Tail(t) ELSE t
  IN /\ w # <<>>
     /\ Head(w) \in DigitChars
     /\ \A i \in 2..Len(w) : w[i] \in DigitChars \cup {"_"}

\* a scalar node as the Python value the constructor builds
YamlScalar(raw) ==
  LET t == Strip(raw)
  IN CASE t = <<>> -> [type |-> "null", text |-> <<>>]
       [] Len(t) >= 2 /\ Head(t) = Quote /\ t[Len(t)] = Quote
            -> [type |-> "str", text |-> SubSeq(t, 2, Len(t) - 1)]
       [] IsYamlInt(t) -> [type |-> "int", text |-> t]
       [] OTHER -> [type |-> "str", text |-> t]

\* position of the ":" that ends a simple key (followed by a space or the
\* end of the line), 0 when the line has none
ColonAt(line) ==
  LET idx == {i \in 1..Len(line) :
                line[i] = ":" /\ (i = Len(line) \/ line[i + 1] = " ")}
  IN IF idx = {} THEN 0 ELSE CHOOSE i \in idx : \A j \in idx : i <= j

YamlLines(text) ==
  SelectSeq(Split(text, <<NL>>, -1), LAMBDA l : Strip(l) # <<>>)

KeyOf(line) == Strip(SubSeq(line, 1, ColonAt(line) - 1))
ValueOf(line) == YamlScalar(SubSeq(line, ColonAt(line) + 1, Len(line)))

\* the mapping of `key: value` lines; a later duplicate of a key replaces
\* the earlier one
YamlMapping(lines) ==
  [k \in {KeyOf(lines[i]) : i \in 1..Len(lines)} |->
     ValueOf(lines[CHOOSE i \in 1..Len(lines) :
                     /\ KeyOf(lines[i]) = k
                     /\ \A j \in 1..Len(lines) : KeyOf(lines[j]) = k => j <= i])]

YamlLoaded(kind, value, map) == [kind |-> kind, value |-> value, map |-> map]

\* the document of the non-blank lines; keyed are the lines that hold a key
YamlDocument(text, lines, keyed) ==
  CASE lines = <<>> -> YamlLoaded("scalar", YamlScalar(<<>>), <<>>)
    [] lines # <<>> /\ keyed = {} -> YamlLoaded("scalar", YamlScalar(text), <<>>)
    [] lines # <<>> /\ keyed = 1..Len(lines)
         -> YamlLoaded("dict", YamlScalar(<<>>), YamlMapping(lines))
    [] OTHER -> YamlLoaded("error", YamlScalar(<<>>), <<>>)

KeyedLines(lines) == {i \in 1..Len(lines) : ColonAt(lines[i]) # 0}

YamlOfLines(text, lines) == YamlDocument(text, lines, KeyedLines(lines))

\* kind "error" is yaml.YAMLError; "dict" carries the mapping, "scalar" the value
safe_load(text) == YamlOfLines(text, YamlLines(text))

(***************************************************************************)
(* Files of a skill directory other than SKILL.md.                         *)
(***************************************************************************)
ResourcePaths ==
  <<"scripts/example.py", "scripts/.gitkeep", "scripts/run.py",
    "references/example.md", "assets/example-template.md", "README.md">>

AllPaths == {ResourcePaths[i] : i \in 1..Len(ResourcePaths)}

\* first component of the path relative to the skill root ("" for a root file)
TopDir(p) ==
  CASE p \in {"scripts/example.py", "scripts/.gitkeep", "scripts/run.py"} -> "scripts"
    [] p = "references/example.md" -> "references"
    [] p = "assets/example-template.md" -> "assets"
    [] OTHER -> ""

\* 'example' in f.name.lower()
IsExampleName(p) ==
  p \in {"scripts/example.py", "references/example.md", "assets/example-template.md"}

\* f.name == '.gitkeep'
IsGitkeep(p) == p = "scripts/.gitkeep"

(***************************************************************************)
(* SkillValidator.  v is the validator object's state while validate()     *)
(* runs: its two lists and the exception in flight (kind "none" when       *)
(* there is none).  d is the skill directory read by the checks.           *)
(***************************************************************************)
Marker == <<"-", "-", "-">>
MinDescriptionLen == 20
MinBodyLen == 100
MaxBodyLen == 25000

NoExc == [kind |-> "none", msg |-> ""]
Raise(v, kind, msg) == [v EXCEPT !.exc = [kind |-> kind, msg |-> msg]]
AddError(v, msg) == [v EXCEPT !.errors = Append(@, msg)]
AddWarning(v, msg) == [v EXCEPT !.warnings = Append(@, msg)]

E_NoDir == "Skill directory does not exist"
E_NotDir == "Path is not a directory"
E_NoSkillMd == "SKILL.md file is required but not found"
E_NoOpen == "SKILL.md must start with YAML frontmatter (---)"
E_NoClose == "SKILL.md must have closing --- for frontmatter"
E_BadYaml == "Invalid YAML frontmatter"
E_NotDict == "Frontmatter must be a YAML dictionary"
E_NoName == "Frontmatter must include 'name' field"
E_NoDescription == "Frontmatter must include 'description' field"
E_ShortDescription == "Description is too short (min 20 characters)"
E_TodoDescription == "Description contains TODO - must be completed"
E_EmptyBody == "SKILL.md body is empty"
E_Spaces == "Skill name cannot contain spaces"
W_NameMismatch == "Frontmatter name doesn't match directory name"
W_ExtraFields == "Frontmatter contains extra fields (will be ignored)"
W_TodoBody == "SKILL.md contains TODO items - consider completing them"
W_ShortBody == "SKILL.md body is very short - consider adding more guidance"
W_LongBody == "SKILL.md body is very long (>5000 words)"
W_Example == "Found example file that should be removed or renamed: "
W_NoResources == "No bundled resources found (scripts, references, or assets)"
W_NotLower == "Skill name should be lowercase"
W_Underscore == "Skill name should use hyphens, not underscores"

FatalErrors ==
  {E_NoDir, E_NotDir, E_NoSkillMd, E_NoOpen, E_NoClose, E_BadYaml, E_NotDict,
   E_NoName, E_NoDescription}

_validate_directory_exists(v, d) ==
  IF d.kind = "absent" THEN Raise(v, "ValidationError", E_NoDir)
  ELSE IF d.kind # "dir" THEN Raise(v, "ValidationError", E_NotDir)
  ELSE v

\* a missing SKILL.md recorded without raising
_validate_skill_md_exists_NoRaise(v, d) ==
  IF ~d.md.exists THEN AddError(v, E_NoSkillMd) ELSE v

_validate_skill_md_exists(v, d) ==
  IF ~d.md.exists THEN Raise(v, "ValidationError", E_NoSkillMd) ELSE v

ErrorIf(cond, v, msg) == IF cond THEN AddError(v, msg) ELSE v
WarnIf(cond, v, msg) == IF cond THEN AddWarning(v, msg) ELSE v

\* the length test without .strip()
DescriptionTooShort_NoStrip(description) ==
  \/ description.type = "null"
  \/ description.type = "str" /\ description.text = <<>>
  \/ description.type = "str" /\ StrLen(description.text) < MinDescriptionLen

\* line 98: not description or len(description.strip()) < 20
DescriptionTooShort(description) ==
  \/ description.type = "null"
  \/ description.type = "str" /\ description.text = <<>>
  \/ description.type = "str"
       /\ StrLen(Strip(description.text)) < MinDescriptionLen

\* line 104, v being the validator after the check of line 98: `in` raises
\* TypeError on None
ValidateDescriptionTodo(v, description) ==
  IF description.type = "null" THEN Raise(v, "TypeError", "not iterable")
  ELSE ErrorIf(ContainsTodo(description.text), v, E_TodoDescription)

\* lines 96-105: the description checks; .strip() raises AttributeError on
\* an int
ValidateDescription(v, description) ==
  IF description.type = "int" THEN Raise(v, "AttributeError", "strip")
  ELSE ValidateDescriptionTodo(
         ErrorIf(DescriptionTooShort(description), v, E_ShortDescription),
         description)

\* lines 107-113
ValidateExtraFields(v, map) ==
  IF v.exc.kind # "none" THEN v
  ELSE WarnIf(DOMAIN map \ {<<"name">>, <<"description">>} # {}, v, W_ExtraFields)

\* lines 89-94
ValidateName(v, d, name) ==
  WarnIf(name.type # "str" \/ name.text # d.name, v, W_NameMismatch)

\* missing fields recorded without raising
ValidateFields_NoRaise(v, d, map) ==
  IF <<"name">> \notin DOMAIN map THEN AddError(v, E_NoName)
  ELSE IF <<"description">> \notin DOMAIN map THEN AddError(v, E_NoDescription)
  ELSE ValidateExtraFields(
         ValidateDescription(ValidateName(v, d, map[<<"name">>]),
                             map[<<"description">>]),
         map)

\* lines 83-113: the checks on the loaded mapping
ValidateFields(v, d, map) ==
  IF <<"name">> \notin DOMAIN map THEN Raise(v, "ValidationError", E_NoName)
  ELSE IF <<"description">> \notin DOMAIN map
       THEN Raise(v, "ValidationError", E_NoDescription)
  ELSE ValidateExtraFields(
         ValidateDescription(ValidateName(v, d, map[<<"name">>]),
                             map[<<"description">>]),
         map)

\* lines 73-81, frontmatter being what yaml.safe_load returned or raised
ValidateLoaded(v, d, frontmatter) ==
  IF frontmatter.kind = "error" THEN Raise(v, "ValidationError", E_BadYaml)
  ELSE IF frontmatter.kind # "dict" THEN Raise(v, "ValidationError", E_NotDict)
  ELSE ValidateFields(v, d, frontmatter.map)

\* lines 66-71, parts being content.split('---', 2)
ValidateParts(v, d, parts) ==
  IF Len(parts) < 3 THEN Raise(v, "ValidationError", E_NoClose)
  ELSE ValidateLoaded(v, d, safe_load(Strip(parts[2])))

_validate_yaml_frontmatter(v, d) ==
  IF ~StartsWith(d.md.text, Marker) THEN Raise(v, "ValidationError", E_NoOpen)
  ELSE ValidateParts(v, d, Split(d.md.text, Marker, 2))

\* lines 127-146, body being parts[2].strip()
ValidateBody(v, body) ==
  IF body = <<>> THEN AddError(v, E_EmptyBody)
  ELSE WarnIf(StrLen(body) > MaxBodyLen,
              WarnIf(StrLen(body) < MinBodyLen,
                     WarnIf(ContainsTodo(body), v, W_TodoBody),
                     W_ShortBody),
              W_LongBody)

\* lines 121-125
ValidateBodyParts(v, parts) ==
  IF Len(parts) < 3 THEN v ELSE ValidateBody(v, Strip(parts[3]))

_validate_skill_body(v, d) == ValidateBodyParts(v, Split(d.md.text, Marker, 2))

\* a real file of a resource directory: a file, and not .gitkeep
IsResourceFile(p) == TopDir(p) # "" /\ ~IsGitkeep(p)

\* the example-file warnings of the files ResourcePaths[i..]
RECURSIVE ExampleWarnings(_, _, _)
ExampleWarnings(v, d, i) ==
  IF i > Len(ResourcePaths) THEN v
  ELSE ExampleWarnings(
         WarnIf(/\ ResourcePaths[i] \in d.files
                /\ IsResourceFile(ResourcePaths[i])
                /\ IsExampleName(ResourcePaths[i]),
                v, W_Example \o ResourcePaths[i]),
         d, i + 1)

_validate_resources(v, d) ==
  WarnIf(~\E p \in d.files : IsResourceFile(p),
         ExampleWarnings(v, d, 1), W_NoResources)

\* a naming check that only warns about a space
_validate_naming_conventions_WarnOnly(v, d) ==
  WarnIf(ContainsChar(d.name, " "),
         WarnIf(ContainsChar(d.name, "_"),
                WarnIf(~IsLower(d.name), v, W_NotLower),
                W_Underscore),
         E_Spaces)

_validate_naming_conventions(v, d) ==
  ErrorIf(ContainsChar(d.name, " "),
          WarnIf(ContainsChar(d.name, "_"),
                 WarnIf(~IsLower(d.name), v, W_NotLower),
                 W_Underscore),
          E_Spaces)

\* the i-th check of validate()
Check(v, d, i) ==
  CASE i = 1 -> _validate_directory_exists(v, d)
    [] i = 2 -> _validate_skill_md_exists(v, d)
    [] i = 3 -> _validate_yaml_frontmatter(v, d)
    [] i = 4 -> _validate_skill_body(v, d)
    [] i = 5 -> _validate_resources(v, d)
    [] OTHER -> _validate_naming_conventions(v, d)

NumChecks == 6

\* the try block of validate() from its i-th check on: the checks run in
\* order until one raises
RECURSIVE ChecksFrom(_, _, _)
ChecksFrom(v, d, i) ==
  IF i > NumChecks \/ v.exc.kind # "none" THEN v
  ELSE ChecksFrom(Check(v, d, i), d, i + 1)

\* the except clause and the return of validate(): ValidationError is
\* recorded as an error, any other exception propagates
Caught(s) ==
  IF s.exc.kind = "ValidationError"
  THEN [AddError(s, s.exc.msg) EXCEPT !.exc = NoExc]
  ELSE s

validate(v, d) == Caught(ChecksFrom([v EXCEPT !.exc = NoExc], d, 1))

(***************************************************************************)
(* SkillPackager.                                                          *)
(*                                                                         *)
(* OutDirs are the places output_dir can lie relative to the skill         *)
(* directory: its parent (the command's default, as any directory outside  *)
(* the skill), the skill directory itself, or a directory inside it.  The  *)
(* archive is output_dir/<skill_name>.skill; ArcRel is that path relative  *)
(* to the skill root when it lies inside the skill directory.              *)
(***************************************************************************)
OutDirs == {"parent", "skill", "skill/dist"}
InsideDirs == {"skill", "skill/dist"}
ArcRel(loc) == IF loc = "skill" THEN "NAME.skill" ELSE "dist/NAME.skill"

NoArchive == [exists |-> FALSE, complete |-> FALSE, entries |-> <<>>]
\* bytes of an archive file read as an ordinary file: of a closed archive,
\* and of the archive being written while it is read
ArchiveBytes == <<"ARCHIVE_BYTES">>
PartialArchiveBytes == <<"PARTIAL_ARCHIVE_BYTES">>

\* the regular files under the skill directory, by path relative to its
\* root, with their content; writing names the archive that is open
RegularFiles(md, fl, arch, writing) ==
  LET inside == {l \in InsideDirs : arch[l].exists}
      paths == (IF md.exists THEN {"SKILL.md"} ELSE {})
                 \cup DOMAIN fl \cup {ArcRel(l) : l \in inside}
  IN [p \in paths |->
        IF p = "SKILL.md" THEN md.text
        ELSE IF p \in DOMAIN fl THEN fl[p]
        ELSE IF p = ArcRel(writing) /\ writing \in InsideDirs
             THEN PartialArchiveBytes
             ELSE ArchiveBytes]

\* zipfile.ZipFile(package_path, 'w'): the file is created or truncated
OpenArchive(arch, loc) ==
  [arch EXCEPT ![loc] = [exists |-> TRUE, complete |-> FALSE, entries |-> <<>>]]

\* the rglob walk of package(): the files found once the archive is open
Walk(md, fl, arch, loc) == RegularFiles(md, fl, OpenArchive(arch, loc), loc)

Faults == {"none", "mkdir", "open", "write"}

\* package() interrupted by a filesystem failure (fault) or not ("none");
\* for fault "write", added are the files written before the one that
\* failed.  The with-block closes the archive on the way out.
WriteEntries(arch, walk, loc, fault, added) ==
  IF fault = "write"
  THEN [archives |-> [arch EXCEPT ![loc] =
                        [exists |-> TRUE, complete |-> FALSE,
                         entries |-> [p \in added |-> walk[p]]]],
        raised |-> TRUE]
  ELSE [archives |-> [arch EXCEPT ![loc] =
                        [exists |-> TRUE, complete |-> TRUE, entries |-> walk]],
        raised |-> FALSE]

package(md, fl, arch, loc, fault, added) ==
  IF fault \in {"mkdir", "open"}
  THEN [archives |-> arch, raised |-> TRUE]
  ELSE WriteEntries(arch, Walk(md, fl, arch, loc), loc, fault, added)

(***************************************************************************)
(* Initializer.                                                            *)
(***************************************************************************)
\* a template whose description does not start with the placeholder
SkillTemplate_NoPlaceholder(skill_name_, skill_title) ==
  Marker \o <<NL>>
    \o <<"name", ":", " ">> \o skill_name_ \o <<NL>>
    \o <<"description", ":", " ", "DESC_TAIL", NL>>
    \o Marker \o <<NL, NL, "#", " ">> \o skill_title
    \o <<NL, NL, "BODY_TAIL", NL>>

\* SKILL_TEMPLATE.format(skill_name=..., skill_title=...)
SkillTemplate(skill_name_, skill_title) ==
  Marker \o <<NL>>
    \o <<"name", ":", " ">> \o skill_name_ \o <<NL>>
    \o <<"description", ":", " ", "TODO", " ", "DESC_TAIL", NL>>
    \o Marker \o <<NL, NL, "#", " ">> \o skill_title
    \o <<NL, NL, "BODY_TAIL", NL>>

\* a check that forgets to set the separators aside
NameAccepted_NoReplace(name) == IsAlnum(name)

\* main()'s check of the skill name
NameAccepted(name) == IsAlnum(Replace(Replace(name, "-", <<>>), "_", <<>>))

\* the files create_skill_structure() writes besides SKILL.md
TemplateFiles ==
  [p \in {"scripts/example.py", "references/example.md",
          "assets/example-template.md", "scripts/.gitkeep"} |->
     CASE p = "scripts/example.py" -> <<"EXAMPLE_SCRIPT">>
       [] p = "references/example.md" -> <<"EXAMPLE_REFERENCE">>
       [] p = "assets/example-template.md" -> <<"EXAMPLE_ASSET">>
       [] OTHER -> <<>>]

(***************************************************************************)
(* State.                                                                  *)
(*   skill_name   name of the skill directory (skill_path.name)            *)
(*   fs_kind      what lies at the skill path: "absent", "file" or "dir"   *)
(*   skill_md     the SKILL.md of the directory: [exists, text]            *)
(*   files        the other files of the directory: path -> content        *)
(*   archives     the archive file at output_dir/<name>.skill, per OutDirs *)
(*   validator    the SkillValidator object: its lists and the number of   *)
(*                validate() calls made on it                              *)
(*   report       what the last validate() call returned or raised         *)
(*   first_report what the first validate() call on the object returned    *)
(*   cli          the last command or call made and how it ended: exit is  *)
(*                the exit status (1 for a call that raised), packaged     *)
(*                whether package() was entered, loc and fault the output  *)
(*                directory and the filesystem failure it met, packages    *)
(*                the number of package commands and calls so far          *)
(***************************************************************************)
VARIABLES skill_name, fs_kind, skill_md, files, archives,
          validator, report, first_report, cli

vars == <<skill_name, fs_kind, skill_md, files, archives,
          validator, report, first_report, cli>>

Dir == [name |-> skill_name, kind |-> fs_kind, md |-> skill_md,
        files |-> DOMAIN files]

NoFile == [exists |-> FALSE, text |-> <<>>]
NoReport == [status |-> "none", ok |-> FALSE, errors |-> <<>>, warnings |-> <<>>]
NoCli == [cmd |-> "none", exit |-> 0, after_init |-> FALSE,
          packaged |-> FALSE, loc |-> "parent", fault |-> "none", packages |-> 0]

\* SkillValidator.__init__
NewValidator == [errors |-> <<>>, warnings |-> <<>>, exc |-> NoExc]

\* the tuple validate() returns, or the exception it lets through
ReportOf(s) ==
  IF s.exc.kind = "none"
  THEN [status |-> "returned", ok |-> Len(s.errors) = 0,
        errors |-> s.errors, warnings |-> s.warnings]
  ELSE [status |-> s.exc.kind, ok |-> FALSE, errors |-> <<>>, warnings |-> <<>>]

\* after_init: a validation run that directly follows a successful init
Ran(cmd, exit, packaged, loc, fault) ==
  [cmd |-> cmd, exit |-> exit,
   after_init |-> (cmd = "validate" /\ cli.cmd = "init" /\ cli.exit = 0),
   packaged |-> packaged, loc |-> loc, fault |-> fault,
   packages |-> IF cmd \in {"package", "package()"}
                THEN cli.packages + 1 ELSE cli.packages]

(***************************************************************************)
(* Operations.                                                             *)
(***************************************************************************)
\* SkillValidator(skill_path).validate(): one validation run
Validated(s, runs) ==
  /\ validator' = [errors |-> s.errors, warnings |-> s.warnings, runs |-> runs]
  /\ report' = ReportOf(s)

ValidateRun ==
  /\ Validated(validate(NewValidator, Dir), 1)
  /\ first_report' = report'
  /\ cli' = Ran("validate", 0, FALSE, "parent", "none")
  /\ UNCHANGED <<skill_name, fs_kind, skill_md, files, archives>>

\* validate() called again on the SkillValidator object of the last run
Revalidate ==
  /\ validator.runs >= 1
  /\ validator.runs < MaxRuns
  /\ Validated(validate([errors |-> validator.errors,
                         warnings |-> validator.warnings, exc |-> NoExc], Dir),
               validator.runs + 1)
  /\ cli' = Ran("revalidate", 0, FALSE, "parent", "none")
  /\ UNCHANGED <<skill_name, fs_kind, skill_md, files, archives, first_report>>

\* a main() that tests the wrong list
ValidationFailed_WrongList(errors, warnings) == Len(warnings) > 0

\* main()'s test after validation: errors are printed and the command exits
ValidationFailed(errors, warnings) == Len(errors) > 0

\* the files a write failure can leave in the archive: those written before
\* the file that failed
PartialWrites(md, fl, arch, loc) ==
  LET all == DOMAIN Walk(md, fl, arch, loc)
  IN {added \in SUBSET all : added # all}

\* package_skill.py main(): validate, then package unless there are errors
Packaged(p, cmd, loc, fault) ==
  /\ archives' = p.archives
  /\ cli' = Ran(cmd, IF p.raised THEN 1 ELSE 0, TRUE, loc, fault)

\* lines 254-273, s being the validator when validate() has ended: an
\* exception it let through, or errors, end the command with status 1
MainAfterValidate(s, loc, fault, added) ==
  IF s.exc.kind # "none" \/ ValidationFailed(s.errors, s.warnings)
  THEN /\ archives' = archives
       /\ cli' = Ran("package", 1, FALSE, loc, "none")
  ELSE Packaged(package(skill_md, files, archives, loc, fault, added),
                "package", loc, fault)

PackageMain(loc, fault, added) ==
  /\ cli.packages < MaxPackages
  /\ fault = "write" => added \in PartialWrites(skill_md, files, archives, loc)
  /\ fault # "write" => added = {}
  /\ Validated(validate(NewValidator, Dir), 1)
  /\ first_report' = report'
  /\ MainAfterValidate(validate(NewValidator, Dir), loc, fault, added)
  /\ UNCHANGED <<skill_name, fs_kind, skill_md, files>>

\* SkillPackager(skill_path, output_dir).package() called directly
PackageCall(loc, fault, added) ==
  /\ cli.packages < MaxPackages
  /\ fs_kind = "dir"
  /\ fault = "write" => added \in PartialWrites(skill_md, files, archives, loc)
  /\ fault # "write" => added = {}
  /\ Packaged(package(skill_md, files, archives, loc, fault, added),
              "package()", loc, fault)
  /\ UNCHANGED <<skill_name, fs_kind, skill_md, files, validator, report,
                 first_report>>

\* init_skill.py main() with skill_name as its argument
InitMain ==
  /\ IF ~NameAccepted(skill_name) \/ fs_kind # "absent"
     THEN /\ cli' = Ran("init", 1, FALSE, "parent", "none")
          /\ UNCHANGED <<fs_kind, skill_md, files>>
     ELSE /\ fs_kind' = "dir"
          /\ skill_md' = [exists |-> TRUE,
                          text |-> SkillTemplate(skill_name,
                                     Title(Replace(skill_name, "-", <<" ">>)))]
          /\ files' = TemplateFiles
          /\ cli' = Ran("init", 0, FALSE, "parent", "none")
  /\ UNCHANGED <<skill_name, archives, validator, report, first_report>>

(***************************************************************************)
(* Inputs: the names, documents and directories the specifications start   *)
(* from.                                                                   *)
(***************************************************************************)
\* the texts of 1..n characters over chars
RECURSIVE TextsUpTo(_, _)
TextsUpTo(chars, n) ==
  IF n = 0 THEN {}
  ELSE LET shorter == TextsUpTo(chars, n - 1)
       IN {<<c>> : c \in chars}
            \cup shorter
            \cup {Append(t, c) : t \in shorter, c \in chars}

\* characters of a name on the command line: ASCII letters, a digit, the
\* two separators, a space and a non-ASCII letter
NameChars == {"a", "A", "1", "-", "_", " ", "eacute"}
InitNames == TextsUpTo(NameChars, MaxNameLen)

\* characters of the name of a directory handed to the validator
DirNameChars == {"a", "A", " "}
DirNames == TextsUpTo(DirNameChars, MaxDirNameLen)

Filler(n) == [i \in 1..n |-> "a"]

\* values of the description field, as written in the header
DescriptionInputs ==
  { Filler(MinDescriptionLen - 1),
    Filler(MinDescriptionLen),
    <<Quote, " ">> \o Filler(MinDescriptionLen - 1) \o <<" ", Quote>>,
    <<Quote, " ">> \o Filler(MinDescriptionLen) \o <<" ", Quote>>,
    <<Quote, Quote>>,
    <<"TODO">>,
    <<"TODO", " ">> \o Filler(MinDescriptionLen),
    <<>>,
    <<"1">> }

Field(key, value) == <<key, ":", " ">> \o value \o <<NL>>

\* headers that load as a mapping: each field present with some value, or absent
NameFields(name) == {<<>>, Field("name", name), Field("name", Append(name, "a"))}
DescriptionFields == {<<>>} \cup {Field("description", v) : v \in DescriptionInputs}
ExtraFields == {<<>>, Field("extra", <<"a">>)}

MappingHeaders(name) ==
  {n \o d \o e : n \in NameFields(name), d \in DescriptionFields, e \in ExtraFields}
    \ {<<>>}

\* headers that do not: nothing, a bare scalar, a line that is no key
OtherHeaders ==
  { <<>>, <<"a", NL>>, Field("name", <<"a">>) \o <<"a", NL>> }

BodyInputs ==
  { <<>>, <<"TODO", NL>>, <<"TEXT_100", NL>>, <<"TEXT_LONG", NL>> }

Document(header, body) == Marker \o <<NL>> \o header \o Marker \o <<NL>> \o body

\* the metadata documents handed to the validator
Documents(name) ==
  {Document(h, b) : h \in MappingHeaders(name) \cup OtherHeaders, b \in BodyInputs}
    \cup { Field("name", name) \o Marker \o <<NL, "a", NL>>,
           Marker \o <<NL>> \o Field("name", name) \o <<"a", NL>> }

ResourceInputs ==
  { <<>>,
    [p \in {"scripts/.gitkeep"} |-> <<>>],
    [p \in {"scripts/example.py", "scripts/run.py", "README.md"} |->
       IF p = "scripts/example.py" THEN <<"EXAMPLE_SCRIPT">> ELSE <<"a">>] }

NoArchives == [l \in OutDirs |-> NoArchive]

Untouched ==
  /\ archives = NoArchives
  /\ validator = [errors |-> <<>>, warnings |-> <<>>, runs |-> 0]
  /\ report = NoReport
  /\ first_report = NoReport
  /\ cli = NoCli

(***************************************************************************)
(* SpecValidate: validation runs against a directory that does not change. *)
(***************************************************************************)
InitValidate ==
  /\ skill_name \in DirNames
  /\ \/ /\ fs_kind \in {"absent", "file"}
        /\ skill_md = NoFile
        /\ files = <<>>
     \/ /\ fs_kind = "dir"
        /\ skill_md \in {NoFile}
             \cup {[exists |-> TRUE, text |-> t] : t \in Documents(skill_name)}
        /\ files \in ResourceInputs
  /\ Untouched

NextValidate == ValidateRun \/ Revalidate

SpecValidate == InitValidate /\ [][NextValidate]_vars

(***************************************************************************)
(* SpecInit: the init command on a name, then validation of what it made.  *)
(***************************************************************************)
InitInit ==
  /\ skill_name \in InitNames
  /\ fs_kind \in {"absent", "dir"}
  /\ skill_md = NoFile
  /\ files = <<>>
  /\ Untouched

NextInit == InitMain \/ ValidateRun

SpecInit == InitInit /\ [][NextInit]_vars

(***************************************************************************)
(* SpecPackage: the package command and package() on a skill directory.    *)
(***************************************************************************)
PackageNames == {<<"a">>}

PackageDocuments(name) ==
  { Document(Field("name", name) \o Field("description", Filler(MinDescriptionLen)),
             <<"TEXT_100", NL>>),
    Document(Field("name", name) \o Field("description", <<"TODO">>),
             <<"TEXT_100", NL>>),
    Document(Field("name", name) \o Field("description", <<>>),
             <<"TEXT_100", NL>>) }

PackageResources == { <<>>, [p \in {"scripts/run.py"} |-> <<"a">>] }

InitPackage ==
  /\ skill_name \in PackageNames
  /\ fs_kind = "dir"
  /\ skill_md \in {NoFile}
       \cup {[exists |-> TRUE, text |-> t] : t \in PackageDocuments(skill_name)}
  /\ files \in PackageResources
  /\ Untouched

\* what a failure can leave written, for each failure
AddedInputs(loc, fault) ==
  IF fault = "write"
  THEN PartialWrites(skill_md, files, archives, loc)
  ELSE {{}}

NextPackage ==
  \/ \E loc \in OutDirs, fault \in Faults :
       \E added \in AddedInputs(loc, fault) : PackageMain(loc, fault, added)
  \/ \E loc \in OutDirs, fault \in Faults :
       \E added \in AddedInputs(loc, fault) : PackageCall(loc, fault, added)

SpecPackage == InitPackage /\ [][NextPackage]_vars


(***************************************************************************)
(* Properties.                                                             *)
(***************************************************************************)
Range(s) == {s[i] : i \in 1..Len(s)}
Count(x, s) == Cardinality({i \in 1..Len(s) : s[i] = x})
\* what a sequence gained beyond the prefix base
Added(s, base) == SubSeq(s, Len(base) + 1, Len(s))

\* the header of the directory's metadata document, as the validator reads it
HeaderParts == Split(skill_md.text, Marker, 2)
HeaderDelimited ==
  /\ fs_kind = "dir"
  /\ skill_md.exists
  /\ StartsWith(skill_md.text, Marker)
  /\ Len(HeaderParts) >= 3
Frontmatter == safe_load(Strip(HeaderParts[2]))
HeaderIsMapping == HeaderDelimited /\ Frontmatter.kind = "dict"
HasField(k) == <<k>> \in DOMAIN Frontmatter.map
HasBothFields == HeaderIsMapping /\ HasField("name") /\ HasField("description")
Description == Frontmatter.map[<<"description">>]

\* the lists the validator object holds when a pass starts: those of the
\* object validate() is called on again, or the empty ones of a new object
BaseErrors == IF cli'.cmd = "revalidate" THEN validator.errors ELSE <<>>
BaseWarnings == IF cli'.cmd = "revalidate" THEN validator.warnings ELSE <<>>
PassErrors == Added(validator'.errors, BaseErrors)
PassWarnings == Added(validator'.warnings, BaseWarnings)
IsPass == cli'.cmd \in {"validate", "revalidate", "package"}

\* what the body, resources and naming checks report when run on their own
LaterChecks == ChecksFrom(NewValidator, Dir, 4)

\* the regular files under the skill directory, no archive being written
SourceFiles == RegularFiles(skill_md, files, archives, "none")

----------------------------------------------------------------------------
\* C1: in the package command, errors from validation end the command with
\* status 1 before package() runs and leave every archive as it was; a
\* report without errors, with or without warnings, lets package() run.
C1_PackageOnlyWithoutErrors ==
  [][cli'.cmd = "package" /\ report'.status = "returned" =>
       /\ report'.errors # <<>> =>
            /\ cli'.exit = 1
            /\ ~cli'.packaged
            /\ archives' = archives
       /\ report'.errors = <<>> => cli'.packaged]_vars

\* the command refused a directory with errors while an archive of an
\* earlier run lay in the output directory
C1_Witness ==
  /\ cli.cmd = "package"
  /\ report.errors # <<>>
  /\ cli.exit = 1
  /\ ~cli.packaged
  /\ archives[cli.loc].exists

----------------------------------------------------------------------------
\* C2 as stated: init followed immediately by validate produces zero errors.
C2_InitThenValidateNoErrors ==
  cli.after_init => report.status = "returned" /\ report.errors = <<>>

\* C2 amended: the report validate returns right after init holds exactly
\* one error: the placeholder description's TODO error, or, for a name
\* holding the marker ---, the missing-description error.
C2_InitThenValidateOneError ==
  cli.after_init /\ report.status = "returned" =>
    report.errors =
      IF Find(skill_name, Marker) = 0
      THEN <<E_TodoDescription>>
      ELSE <<E_NoDescription>>

C2_Witness ==
  /\ cli.after_init
  /\ Find(skill_name, Marker) # 0
  /\ report.errors = <<E_NoDescription>>

----------------------------------------------------------------------------
\* C3 as stated: whenever the header parses as a mapping, a missing name or
\* description is recorded as an error and the body, resources and naming
\* checks still contribute their errors and warnings to the report.
C3_MissingFieldDoesNotHalt ==
  validator.runs = 1 /\ HeaderIsMapping /\ report.status = "returned" =>
    /\ ~HasField("name") => E_NoName \in Range(report.errors)
    /\ ~HasField("description") => E_NoDescription \in Range(report.errors)
    /\ Range(LaterChecks.errors) \subseteq Range(report.errors)
    /\ Range(LaterChecks.warnings) \subseteq Range(report.warnings)

\* C3 amended: a missing name or description halts the pass like a
\* structural failure (the pass adds that one error and nothing else); with
\* both fields present the later checks run and what they report is
\* added by the pass.
C3_MissingFieldHalts ==
  [][IsPass /\ HeaderIsMapping =>
       IF ~HasField("name")
       THEN PassErrors = <<E_NoName>> /\ PassWarnings = <<>>
       ELSE IF ~HasField("description")
       THEN PassErrors = <<E_NoDescription>> /\ PassWarnings = <<>>
       ELSE report'.status = "returned" =>
              /\ Range(LaterChecks.errors) \subseteq Range(PassErrors)
              /\ Range(LaterChecks.warnings) \subseteq Range(PassWarnings)]_vars

\* a pass over a header without name, an empty body and a name with a space
C3_Witness ==
  /\ validator.runs = 1
  /\ HeaderIsMapping
  /\ ~HasField("name")
  /\ E_EmptyBody \in Range(LaterChecks.errors)
  /\ E_Spaces \in Range(LaterChecks.errors)
  /\ report.errors = <<E_NoName>>

----------------------------------------------------------------------------
\* C4 as stated: for a name with a space the report holds the naming
\* check's space error exactly once, whatever the directory holds.
C4_SpaceErrorAlways ==
  validator.runs = 1 /\ ContainsChar(skill_name, " ") =>
    report.status = "returned" /\ Count(E_Spaces, report.errors) = 1

\* the pass reaches the naming check: no check before it raises
ReachesNamingCheck == HasBothFields /\ Description.type = "str"

\* C4 amended: for a name with a space a pass adds the space error exactly
\* once when it reaches the naming check, and not at all when an earlier
\* check halts it; a report that is returned is never ok.
C4_SpaceErrorWhenReached ==
  [][IsPass /\ ContainsChar(skill_name, " ") =>
       /\ Count(E_Spaces, PassErrors) = IF ReachesNamingCheck THEN 1 ELSE 0
       /\ report'.status = "returned" => ~report'.ok]_vars

\* the space error next to the errors of other checks
C4_Witness ==
  /\ validator.runs = 1
  /\ ContainsChar(skill_name, " ")
  /\ ReachesNamingCheck
  /\ Count(E_Spaces, report.errors) = 1
  /\ E_EmptyBody \in Range(report.errors)
  /\ E_ShortDescription \in Range(report.errors)

----------------------------------------------------------------------------
\* the failures C5 lists: no directory at the path, no metadata document,
\* a header without its opening or closing marker, a header that is no mapping
FatalError ==
  CASE fs_kind = "absent" -> E_NoDir
    [] fs_kind = "file" -> E_NotDir
    [] fs_kind = "dir" /\ ~skill_md.exists -> E_NoSkillMd
    [] fs_kind = "dir" /\ skill_md.exists /\ ~StartsWith(skill_md.text, Marker)
         -> E_NoOpen
    [] HeaderDelimited /\ Frontmatter.kind = "error" -> E_BadYaml
    [] HeaderDelimited /\ Frontmatter.kind = "scalar" -> E_NotDict
    [] HeaderDelimited /\ Frontmatter.kind = "dict" -> "none"
    [] OTHER -> E_NoClose

\* C5: a validation run that meets a fatal structural failure returns
\* (false, [that one error], []).
C5_FatalFailureSingleError ==
  validator.runs = 1 /\ FatalError # "none" =>
    report = [status |-> "returned", ok |-> FALSE,
              errors |-> <<FatalError>>, warnings |-> <<>>]

\* the metadata document is missing in a directory whose name has a space
\* and which holds no resources
C5_Witness ==
  /\ validator.runs = 1
  /\ fs_kind = "dir"
  /\ ~skill_md.exists
  /\ ContainsChar(skill_name, " ")
  /\ files = <<>>
  /\ report.errors = <<E_NoSkillMd>>
  /\ report.warnings = <<>>

----------------------------------------------------------------------------
\* C6: when package() has returned, the archive's entries are the regular
\* files the skill directory held when packaging started, each under its
\* relative path with its content, wherever the output directory lies.
C6_ArchiveEqualsSource ==
  [][cli'.packaged /\ cli'.exit = 0 =>
       archives'[cli'.loc].entries = SourceFiles]_vars

----------------------------------------------------------------------------
\* C7: a package() call that a filesystem failure interrupts leaves no
\* archive file at output_dir/<name>.skill; one that completes leaves a
\* full archive.
C7_NoPartialArchive ==
  cli.packaged =>
    IF cli.exit = 0
    THEN archives[cli.loc].exists /\ archives[cli.loc].complete
    ELSE ~archives[cli.loc].exists

----------------------------------------------------------------------------
\* ^[A-Za-z0-9_-]+$ over the model's characters
MatchesAsciiPattern(name) ==
  /\ name # <<>>
  /\ \A i \in 1..Len(name) : name[i] \in {"a", "A", "1", "-", "_"}

\* C8 as stated: init accepts a name iff it matches ^[A-Za-z0-9_-]+$, and
\* a rejected name ends the command with status 1 with nothing created.
C8_AcceptsIffAsciiPattern ==
  [][cli'.cmd = "init" /\ fs_kind = "absent" =>
       /\ cli'.exit = 0 <=> MatchesAsciiPattern(skill_name)
       /\ cli'.exit = 1 => UNCHANGED <<fs_kind, skill_md, files>>]_vars

\* letters and digits in str.isalnum()'s sense
LettersAndDigits == LowerChars \cup UpperChars \cup DigitChars

\* only letters, digits, hyphens and underscores, and at least one letter
\* or digit
WellFormedName(name) ==
  /\ \A i \in 1..Len(name) : name[i] \in LettersAndDigits \cup {"-", "_"}
  /\ \E i \in 1..Len(name) : name[i] \in LettersAndDigits

\* C8 amended: init accepts a name iff it holds only letters, digits (of
\* any script), hyphens and underscores and at least one letter or digit;
\* any other name ends the command with status 1 with nothing created.
C8_AcceptsIffWellFormed ==
  [][cli'.cmd = "init" /\ fs_kind = "absent" =>
       /\ cli'.exit = 0 <=> WellFormedName(skill_name)
       /\ cli'.exit = 1 => UNCHANGED <<fs_kind, skill_md, files>>
       /\ cli'.exit = 0 => fs_kind' = "dir" /\ skill_md'.exists]_vars

\* a name with a non-ASCII letter and a hyphen is accepted and the skill
\* directory created
C8_Witness ==
  /\ cli.cmd = "init"
  /\ cli.exit = 0
  /\ fs_kind = "dir"
  /\ skill_md.exists
  /\ ContainsChar(skill_name, "eacute")
  /\ ContainsChar(skill_name, "-")
  /\ ~MatchesAsciiPattern(skill_name)

----------------------------------------------------------------------------
\* C9: every validate() call made again on a SkillValidator object, the
\* directory unchanged, returns what the first call returned.
C9_RepeatedRunsSameReport ==
  validator.runs >= 2 => report = first_report

----------------------------------------------------------------------------
\* C10: with name and description in the header, the report holds the
\* description-length error iff the description's trimmed length is below
\* 20, whatever the other checks find.
C10_ShortDescriptionIffBelow20 ==
  /\ validator.runs >= 1
  /\ report.status = "returned"
  /\ HasBothFields
  /\ Description.type = "str"
  => (E_ShortDescription \in Range(report.errors)
        <=> StrLen(Strip(Description.text)) < MinDescriptionLen)

\* a description of 19 characters between padding, next to other errors
C10_Witness ==
  /\ validator.runs = 1
  /\ HasBothFields
  /\ Description.type = "str"
  /\ StrLen(Strip(Description.text)) = MinDescriptionLen - 1
  /\ StrLen(Description.text) > MinDescriptionLen
  /\ E_ShortDescription \in Range(report.errors)
  /\ E_EmptyBody \in Range(report.errors)

=============================================================================
